---- MODULE Spec2Model ----
(***************************************************************************)
(* A model of wgpu-rs's buffer-map futures, buffer ranges and command      *)
(* encoder.                                                                *)
(*                                                                         *)
(*   - src/src/backend/no_alloc_future.rs : the pinned, Completer-based    *)
(*     GpuFuture (variant "no_alloc"): poll, Completer::complete, Drop.    *)
(*   - src/src/backend/native_gpu_future.rs and                            *)
(*     src/src/backend/direct.rs (Context::buffer_map_async): the          *)
(*     Arc<Mutex<SharedState>> GpuFuture (variant "native"): poll and the  *)
(*     backend callback buffer_map_future_wrapper.                         *)
(*   - src/src/buffer.rs : BufferRange and the RangedBuffer impls.         *)
(*   - src/src/lib.rs : CommandEncoder, RenderPass, ComputePass,           *)
(*     Queue::submit and Device::poll.                                     *)
(*   - src/src/backend/direct.rs : Context's device drop, resource         *)
(*     creation, destroy and drop, and the per-device error sink.          *)
(*                                                                         *)
(* Two threads act on a future: the consumer (poll, drop) and the backend  *)
(* (the completion callback).  Every acquisition and release of the cell's *)
(* mutex is a step of its own, so that what happens while the lock is held *)
(* can be told from what happens after it is released.                     *)
(***************************************************************************)
EXTENDS Integers, Sequences, FiniteSets, TLC

\* ------------------------------------------------------------------ bounds

\* Number of distinct wakers a consumer may poll with.
NumWakers == 2
\* Polls the consumer makes of its own accord (polls answering a wake-up come
\* on top of these).
MaxPolls == 3
\* Times the backend may invoke the completion callback (the contract is one;
\* two models a backend that fires a callback twice).
MaxCompletes == 2
\* Largest offset or size handed to one range() call.
MaxInput == 4
\* Longest chain of range() calls made on one buffer.
MaxDepth == 3
\* Size each buffer was allocated with (BufferDescriptor::size).
AllocatedSize == 3
\* Passes begun on one command encoder.
MaxPasses == 2
\* Commands recorded in one pass.
MaxPassCmds == 1
\* copy_buffer_to_buffer calls made on one command encoder.
MaxCopies == 2
\* Command buffers submitted to one device's queue.
MaxWork == 2
\* Explicit destroy calls made on one resource.
MaxDestroys == 2

\* Longest Error::source() chain of a backend error.
MaxChain == 3

\* Adapter requests made.
MaxRequests == 3

\* Calls of SwapChain::get_next_texture, and default views created.
MaxFrames == 3

Wakers == 1..NumWakers
NoWaker == 0
\* BufferMapAsyncStatus::Success and any other status, as the future's output.
Results == {"Ok", "Err"}
NoData == "None"

VARIABLES
    variant,          \* "no_alloc" | "native": which GpuFuture this is
    init,             \* no_alloc: GpuFuture.init is Some
    waker_or_result,  \* no_alloc: Completer.waker_or_result (under the mutex)
    shared_state,     \* native: SharedState {completed, waker, data}
    lock,             \* holder of the cell's mutex: "free" | "consumer" | "backend"
    pcC,              \* consumer thread's position
    pcB,              \* backend thread's position
    cw,               \* waker of the poll in progress / of the latest poll
    taken,            \* poll's local: what take() returned
    bval,             \* complete's argument `value`
    old,              \* complete's local: what replace() returned
    bwaker,           \* buffer_map_future_wrapper's local `waker`
    started,          \* the mapping was requested from the backend
    cancelled,        \* wgpu_buffer_unmap was issued for the buffer
    dropped,          \* the future was dropped (no_alloc: its cell is freed)
    polls,            \* polls begun
    completeCalls,    \* calls of the completion callback
    completeReturns,  \* calls of the completion callback that returned normally
    unmaps,           \* wgpu_buffer_unmap calls issued by the future
    woke,             \* woke[w]: times waker w was woken
    notified,         \* the latest poll's waker was woken since that poll began
    lockedEffects,    \* wake-ups and backend calls made while the mutex was held
    readyLog,         \* results returned by polls as Poll::Ready, in order
    lastOutcome,      \* outcome of the latest finished poll
    storedAtPoll,     \* result stored in the cell when the poll in progress began
    resultStored,     \* some completion has stored its result in the cell
    registered,       \* waker the latest finished poll left registered
    expectWake,       \* waker the consumer had registered when complete ran
    inFlightAtDrop,   \* drop found the mapping started and no result stored
    touchedFreed,     \* the callback locked/wrote/woke through a dropped cell
    initRuns,         \* no_alloc: times the init closure was run
    polledWith,       \* the wakers polls were called with so far
    rng,              \* buffer.rs: the BufferRange at hand
    rparent,          \* the range (or buffer view) `rng` was made from
    rcall,            \* the call that made `rng`: [op, offset, size]
    rstatus,          \* "ok", or "panic" once a range() call's assert failed
    rdepth            \* range() calls made so far

VARIABLES
    enc_owner,        \* lib.rs: who holds the CommandEncoder: "caller", "pass"
                      \* (a live pass's `&mut` borrow) or "moved" (into finish)
    pass_alive,       \* ids of the RenderPass/ComputePass objects that exist
    pass_kind,        \* pass_kind[p]: "none" | "render" | "compute"
    pass_cmds,        \* pass_cmds[p]: commands recorded in pass p
    pass_ended,       \* pass_ended[p]: wgpu_*_pass_end_pass calls made for p
    pass_unwound,     \* ids of the passes dropped while the thread panicked
    passes_begun,     \* passes begun so far
    panicking,        \* std::thread::panicking()
    stream,           \* the encoder's command stream, as the backend holds it
    cmdbuf,           \* Option<CommandBuffer>: what finish() returned
    finishes,         \* calls of finish()
    queue_state,      \* "idle" | "submitted" | "done"
    mem,              \* mem[b]: the bytes of buffer b
    copy_req          \* the arguments of the latest copy_buffer_to_buffer call

VARIABLES
    proc,             \* "running", or "panicked" once a fatal error was raised
    fatal_raised,     \* a backend error was given to handle_error_fatal
    metal_auto_capture, \* the build has feature "metal-auto-capture"
    dev_pc,           \* dev_pc[d]: "alive" | "polled" (in drop) | "dropped"
    submitted,        \* submitted[d]: command buffers submitted to d's queue
    completed,        \* completed[d]: of those, the ones the GPU has finished
    drop_polls,       \* drop_polls[d]: polls issued by the drop of d
    drop_waited,      \* the drop of d found work in flight when it polled
    teardowns,        \* teardowns[d]: backend device teardowns issued for d
    teardown_early,   \* a teardown of d was issued with work still in flight
    res_kind,         \* res_kind[r]: "none" | "buffer" | "texture" | "encoder"
    res_device,       \* res_device[r]: the device r was created from
    res_sink,         \* res_sink[r]: the sink r.error_sink points to
    res_handle,       \* res_handle[r]: "none" | "alive" | "dropped"
    destroy_calls,    \* destroy_calls[r]: backend destroy calls issued for r
    drop_calls,       \* drop_calls[r]: backend drop calls issued for r
    sink_handler,     \* sink_handler[s]: ErrorSinkRaw.uncaptured_handler of s
    installed_after,  \* a handler was installed on r's device after r was made
    delivered         \* Option: the latest error handed to a handler

\* The cells, the mutex and the two threads' positions and locals.
progVars == <<init, waker_or_result, shared_state, lock, pcC, pcB, cw, taken,
              bval, old, bwaker>>
\* What the backend and the wakers have seen.
effectVars == <<started, cancelled, unmaps, woke, notified, lockedEffects>>
\* Counters and records of what happened, read by the properties only.
histVars == <<dropped, polls, completeCalls, completeReturns, readyLog,
              lastOutcome, storedAtPoll, resultStored, registered, expectWake,
              inFlightAtDrop, touchedFreed, initRuns, polledWith>>

futVars == <<variant, progVars, effectVars, histVars>>

rangeVars == <<rng, rparent, rcall, rstatus, rdepth>>

encVars == <<enc_owner, pass_alive, pass_kind, pass_cmds, pass_ended,
             pass_unwound, passes_begun, panicking, stream, cmdbuf, finishes,
             queue_state, mem, copy_req>>

dropVars == <<metal_auto_capture, dev_pc, submitted, completed, drop_polls,
              drop_waited, teardowns, teardown_early>>
resVars == <<res_kind, res_device, res_sink, res_handle, destroy_calls,
             drop_calls, sink_handler, installed_after, delivered>>
devVars == <<proc, fatal_raised, dropVars, resVars>>

\* direct.rs: one call of Context::handle_error.
VARIABLES
    he_state,         \* "idle", or "failed" while a backend call's Err is in hand
    he_cause,         \* the failure: the cause and its Error::source() chain
    he_sunk           \* the errors handle_error gave to the sink for it

heVars == <<he_state, he_cause, he_sunk>>

\* lib.rs / direct.rs: adapter requests.
VARIABLES
    ar_log            \* one record per request made: who served it, whether the
                      \* backend found an adapter, and what the caller got

adapterVars == <<ar_log>>

\* lib.rs: a swap chain, its current output and the views of the thread.
VARIABLES
    sc_panicking,     \* thread::panicking() of the thread that renders
    sc_output,        \* the SwapChainOutput alive, or NoOutput
    sc_backend,       \* the view ids wgpu_swap_chain_get_next_texture returned
    sc_acquired,      \* number of Ok(SwapChainOutput) returned
    sc_errs,          \* number of Err(()) returned
    sc_presents,      \* number of wgpu_swap_chain_present calls
    sc_unwound,       \* number of outputs dropped while unwinding
    sc_owned_live,    \* views from create_default_view that are alive
    sc_owned_dropped, \* views from create_default_view that were dropped
    sc_view_destroys  \* number of wgpu_texture_view_destroy calls

swapVars == <<sc_panicking, sc_output, sc_backend, sc_acquired, sc_errs,
              sc_presents, sc_unwound, sc_owned_live, sc_owned_dropped,
              sc_view_destroys>>

vars == <<futVars, rangeVars, encVars, devVars, heVars, adapterVars, swapVars>>

\* What a step of one part of the program leaves alone: the other parts.
nonFutVars == <<rangeVars, encVars, devVars, heVars, adapterVars, swapVars>>
nonRangeVars == <<futVars, encVars, devVars, heVars, adapterVars, swapVars>>
nonEncVars == <<futVars, rangeVars, devVars, heVars, adapterVars, swapVars>>
nonDevVars == <<futVars, rangeVars, encVars, heVars, adapterVars, swapVars>>
nonHeVars == <<futVars, rangeVars, encVars, devVars, adapterVars, swapVars>>
nonAdapterVars == <<futVars, rangeVars, encVars, devVars, heVars, swapVars>>
nonSwapVars == <<futVars, rangeVars, encVars, devVars, heVars, adapterVars>>

\* ------------------------------------------------- no_alloc_future.rs: cell

\* enum WakerOrResult<T> inside Mutex<Option<..>>
CellNone == [tag |-> "None", waker |-> NoWaker, value |-> NoData]
CellWaker(w) == [tag |-> "Waker", waker |-> w, value |-> NoData]
CellResult(v) == [tag |-> "Result", waker |-> NoWaker, value |-> v]
Cells == {CellNone} \cup {CellWaker(w) : w \in Wakers}
                    \cup {CellResult(v) : v \in Results}

\* native_gpu_future::SharedState
SharedStateNew == [completed |-> FALSE, waker |-> NoWaker, data |-> NoData]

\* ------------------------------------------------------------------- Init

\* GpuFuture::create (no_alloc): an empty cell and the init closure kept for
\* the first poll.  GpuFuture::new (native), inside Context::buffer_map_async,
\* which hands the callback to the backend before it returns the future: the
\* mapping is started when the consumer first sees a native future.
InitFuture ==
    /\ variant \in {"no_alloc", "native"}
    /\ init = (variant = "no_alloc")
    /\ waker_or_result = CellNone
    /\ shared_state = SharedStateNew
    /\ lock = "free"
    /\ pcC = "idle"
    /\ pcB = "idle"
    /\ cw = NoWaker
    /\ taken = CellNone
    /\ bval = NoData
    /\ old = CellNone
    /\ bwaker = NoWaker
    /\ started = (variant = "native")
    /\ cancelled = FALSE
    /\ dropped = FALSE
    /\ polls = 0
    /\ completeCalls = 0
    /\ completeReturns = 0
    /\ unmaps = 0
    /\ woke = [w \in Wakers |-> 0]
    /\ notified = FALSE
    /\ lockedEffects = {}
    /\ readyLog = <<>>
    /\ lastOutcome = "none"
    /\ storedAtPoll = NoData
    /\ resultStored = FALSE
    /\ registered = NoWaker
    /\ expectWake = NoWaker
    /\ inFlightAtDrop = FALSE
    /\ touchedFreed = FALSE
    /\ initRuns = 0
    /\ polledWith = {}

\* ---------------------------------------------------------------- effects

\* Waker::wake, called by `thread`: the waker is woken once more, the consumer
\* is notified if it is the waker of its latest poll, and the call is recorded
\* if `thread` holds the cell's mutex while it makes it.
Wake(w, thread) ==
    /\ woke' = [woke EXCEPT ![w] = @ + 1]
    /\ notified' = (notified \/ w = cw)
    /\ lockedEffects' = IF lock = thread THEN lockedEffects \cup {"wake"}
                        ELSE lockedEffects

\* wgn::wgpu_buffer_unmap(buffer_id), called by `thread`: the backend drops the
\* pending mapping; it begins no callback for it afterwards.
Unmap(thread) ==
    /\ unmaps' = unmaps + 1
    /\ cancelled' = TRUE
    /\ lockedEffects' = IF lock = thread THEN lockedEffects \cup {"unmap"}
                        ELSE lockedEffects

\* The consumer may poll of its own accord MaxPolls times, and always when the
\* waker of its latest poll has been woken.
MayPoll == polls < MaxPolls \/ notified

\* A poll is between its call and its return.
PollInProgress ==
    pcC \in {"poll_lock", "poll_take", "poll_match",
             "npoll_lock", "npoll_waker", "npoll_check"}

\* --------------------------------------- no_alloc_future.rs: GpuFuture::poll

\* PollMatch with the Pending arm leaving the cell empty: the waker is not
\* stored.
PollMatchNoStore(t, w) ==
    IF t.tag = "Result"
    THEN [outcome |-> "Ready", value |-> t.value, cell |-> CellNone]
    ELSE [outcome |-> "Pending", value |-> NoData, cell |-> CellNone]

\* PollMatch with the Pending arm putting a taken waker back instead of
\* storing the context's.
PollMatchKeepTaken(t, w) ==
    IF t.tag = "Result"
    THEN [outcome |-> "Ready", value |-> t.value, cell |-> CellNone]
    ELSE [outcome |-> "Pending", value |-> NoData,
          cell |-> IF t.tag = "Waker" THEN t ELSE CellWaker(w)]

\* match waker_or_result.take(): Ready with the result, or the context's waker
\* stored and Pending.
PollMatch(t, w) ==
    IF t.tag = "Result"
    THEN [outcome |-> "Ready", value |-> t.value, cell |-> CellNone]
    ELSE [outcome |-> "Pending", value |-> NoData, cell |-> CellWaker(w)]

\* A poll that reads `init` and leaves it in place.
InitKept(i) == i

\* self.init.take(): what is left in `init`.
InitTaken(i) == FALSE

\* poll is called with waker w: it takes `init` and, on the first poll, runs
\* it, which requests the mapping.  The backend may complete the request
\* before init returns (complete is then called on this thread, on the empty
\* cell: it locks, stores the result and wakes nobody).
Poll_Init(w) ==
    /\ variant = "no_alloc"
    /\ pcC = "idle"
    /\ MayPoll
    /\ pcC' = "poll_lock"
    /\ cw' = w
    /\ polls' = polls + 1
    /\ notified' = FALSE
    /\ init' = InitTaken(init)
    /\ initRuns' = IF init THEN initRuns + 1 ELSE initRuns
    /\ polledWith' = polledWith \cup {w}
    /\ IF init
       THEN /\ started' = TRUE
            /\ \/ /\ UNCHANGED <<waker_or_result, completeCalls,
                                 completeReturns, resultStored, bval>>
                  /\ storedAtPoll' = NoData
               \/ \E v \in Results :
                     /\ lock = "free"
                     /\ waker_or_result' = CellResult(v)
                     /\ bval' = v
                     /\ completeCalls' = completeCalls + 1
                     /\ completeReturns' = completeReturns + 1
                     /\ resultStored' = TRUE
                     /\ storedAtPoll' = v
       ELSE /\ UNCHANGED <<started, waker_or_result, completeCalls,
                           completeReturns, resultStored, bval>>
            /\ storedAtPoll' = waker_or_result.value
    /\ UNCHANGED <<nonFutVars, variant, shared_state, lock, pcB, taken, old, bwaker,
                   cancelled, unmaps, woke, lockedEffects, dropped, readyLog,
                   lastOutcome, registered, expectWake, inFlightAtDrop,
                   touchedFreed>>

\* let mut waker_or_result = completer.lock();
Poll_Lock ==
    /\ pcC = "poll_lock"
    /\ lock = "free"
    /\ lock' = "consumer"
    /\ pcC' = "poll_take"
    /\ UNCHANGED <<nonFutVars, variant, init, waker_or_result, shared_state, pcB, cw,
                   taken, bval, old, bwaker, effectVars, histVars>>

\* waker_or_result.take()
Poll_Take ==
    /\ pcC = "poll_take"
    /\ taken' = waker_or_result
    /\ waker_or_result' = CellNone
    /\ pcC' = "poll_match"
    /\ UNCHANGED <<nonFutVars, variant, init, shared_state, lock, pcB, cw, bval, old,
                   bwaker, effectVars, histVars>>

\* The match's arm, then the guard is dropped as poll returns.
Poll_Match ==
    /\ pcC = "poll_match"
    /\ LET m == PollMatch(taken, cw) IN
         /\ waker_or_result' = m.cell
         /\ lastOutcome' = m.outcome
         /\ readyLog' = IF m.outcome = "Ready" THEN Append(readyLog, m.value)
                        ELSE readyLog
         /\ registered' = m.cell.waker
    /\ lock' = "free"
    /\ pcC' = "idle"
    /\ UNCHANGED <<nonFutVars, variant, init, shared_state, pcB, cw, taken, bval, old,
                   bwaker, effectVars, dropped, polls, completeCalls,
                   completeReturns, storedAtPoll, resultStored, expectWake,
                   inFlightAtDrop, touchedFreed,
                   initRuns, polledWith>>

\* ------------------------------------ no_alloc_future.rs: Completer::complete

\* CompleteMatch with the Waker arm doing nothing: the waker is dropped, not
\* woken.
CompleteMatchNoWake(o) ==
    CASE o.tag = "Waker" -> "none"
      [] o.tag = "None" -> "none"
      [] o.tag = "Result" -> "panic"

\* What complete does with the value replace() returned: wake the waker it
\* held, nothing for an empty cell, or panic (unreachable!) for a result.
CompleteMatch(o) ==
    CASE o.tag = "Waker" -> "wake"
      [] o.tag = "None" -> "none"
      [] o.tag = "Result" -> "panic"

\* The backend invokes the callback, which calls complete(value), on its own
\* thread.  It begins no callback for a mapping that was unmapped, but one it
\* has begun runs on.
Complete_Call(v) ==
    /\ variant = "no_alloc"
    /\ pcB = "idle"
    /\ started
    /\ ~cancelled
    /\ completeCalls < MaxCompletes
    /\ pcB' = "c_lock"
    /\ bval' = v
    /\ completeCalls' = completeCalls + 1
    /\ UNCHANGED <<nonFutVars, variant, init, waker_or_result, shared_state, lock, pcC,
                   cw, taken, old, bwaker, effectVars, dropped, polls,
                   completeReturns, readyLog, lastOutcome, storedAtPoll,
                   resultStored, registered, expectWake, inFlightAtDrop,
                   touchedFreed,
                   initRuns, polledWith>>

\* let mut waker_or_result = self.waker_or_result.lock();
\* The Completer is a field of the GpuFuture: once the future is dropped the
\* Pin<&Completer> the callback holds dangles, and locking through it is
\* undefined: the call may crash, or go on with whatever the memory holds.
Complete_Lock ==
    /\ pcB = "c_lock"
    /\ lock = "free"
    /\ IF dropped
       THEN /\ touchedFreed' = TRUE
            /\ \/ lock' = "backend" /\ pcB' = "c_replace"
               \/ lock' = lock /\ pcB' = "crashed"
       ELSE /\ lock' = "backend"
            /\ pcB' = "c_replace"
            /\ UNCHANGED touchedFreed
    /\ UNCHANGED <<nonFutVars, variant, init, waker_or_result, shared_state, pcC, cw,
                   taken, bval, old, bwaker, effectVars, dropped, polls,
                   completeCalls, completeReturns, readyLog, lastOutcome,
                   storedAtPoll, resultStored, registered, expectWake,
                   inFlightAtDrop,
                   initRuns, polledWith>>

\* waker_or_result.replace(WakerOrResult::Result(value)); a dropped cell may
\* hold anything.
Complete_Replace ==
    /\ pcB = "c_replace"
    /\ old' \in (IF dropped THEN Cells ELSE {waker_or_result})
    /\ waker_or_result' = CellResult(bval)
    /\ resultStored' = TRUE
    /\ expectWake' = registered
    /\ pcB' = "c_match"
    /\ UNCHANGED <<nonFutVars, variant, init, shared_state, lock, pcC, cw, taken, bval,
                   bwaker, effectVars, dropped, polls, completeCalls,
                   completeReturns, readyLog, lastOutcome, storedAtPoll,
                   registered, inFlightAtDrop, touchedFreed,
                   initRuns, polledWith>>

\* The match's arm.  The guard is still alive in the Waker and None arms; the
\* Result arm drops it and panics.
Complete_Match ==
    /\ pcB = "c_match"
    /\ LET arm == CompleteMatch(old) IN
         \/ /\ arm = "wake"
            /\ Wake(old.waker, "backend")
            /\ pcB' = "c_return"
            /\ UNCHANGED lock
         \/ /\ arm = "none"
            /\ pcB' = "c_return"
            /\ UNCHANGED <<lock, woke, notified, lockedEffects>>
         \/ /\ arm = "panic"
            /\ lock' = "free"
            /\ pcB' = "panicked"
            /\ UNCHANGED <<woke, notified, lockedEffects>>
    /\ UNCHANGED <<nonFutVars, variant, init, waker_or_result, shared_state, pcC, cw,
                   taken, bval, old, bwaker, started, cancelled, unmaps,
                   histVars>>

\* complete returns: the guard goes out of scope.
Complete_Return ==
    /\ pcB = "c_return"
    /\ lock' = "free"
    /\ pcB' = "idle"
    /\ completeReturns' = completeReturns + 1
    /\ UNCHANGED <<nonFutVars, variant, init, waker_or_result, shared_state, pcC, cw,
                   taken, bval, old, bwaker, effectVars, dropped, polls,
                   completeCalls, readyLog, lastOutcome, storedAtPoll,
                   resultStored, registered, expectWake, inFlightAtDrop,
                   touchedFreed,
                   initRuns, polledWith>>

\* --------------------------------- no_alloc_future.rs: impl Drop for GpuFuture

\* DropUnmaps matching the wrong arm: unmap when a result is stored.
DropUnmapsResultArm(cell) == cell.tag = "Result"

\* if let Some(WakerOrResult::Waker(_)) = &*waker_or_result
DropUnmaps(cell) == cell.tag = "Waker"

\* let waker_or_result = self.completer.lock();
Drop_Lock ==
    /\ variant = "no_alloc"
    /\ pcC = "idle"
    /\ lock = "free"
    /\ lock' = "consumer"
    /\ pcC' = "drop_check"
    /\ UNCHANGED <<nonFutVars, variant, init, waker_or_result, shared_state, pcB, cw,
                   taken, bval, old, bwaker, effectVars, histVars>>

\* The check and wgn::wgpu_buffer_unmap(self.completer.buffer_id), made with
\* the guard alive.
Drop_Check ==
    /\ pcC = "drop_check"
    /\ inFlightAtDrop' = (started /\ ~resultStored)
    /\ IF DropUnmaps(waker_or_result)
       THEN Unmap("consumer")
       ELSE UNCHANGED <<unmaps, cancelled, lockedEffects>>
    /\ pcC' = "drop_unlock"
    /\ UNCHANGED <<nonFutVars, variant, init, waker_or_result, shared_state, lock, pcB,
                   cw, taken, bval, old, bwaker, started, woke, notified,
                   dropped, polls, completeCalls, completeReturns, readyLog,
                   lastOutcome, storedAtPoll, resultStored, registered,
                   expectWake, touchedFreed,
                   initRuns, polledWith>>

\* drop returns: the guard is released and the future's memory, the Completer
\* with it, is gone.
Drop_End ==
    /\ pcC = "drop_unlock"
    /\ lock' = "free"
    /\ dropped' = TRUE
    /\ pcC' = "gone"
    /\ UNCHANGED <<nonFutVars, variant, init, waker_or_result, shared_state, pcB, cw,
                   taken, bval, old, bwaker, effectVars, polls, completeCalls,
                   completeReturns, readyLog, lastOutcome, storedAtPoll,
                   resultStored, registered, expectWake, inFlightAtDrop,
                   touchedFreed,
                   initRuns, polledWith>>

\* ------------------------------------ native_gpu_future.rs: GpuFuture::poll

\* NativePollWaker that keeps a stored waker whatever the context's is.
NativePollWakerKeepOld(s, w) ==
    IF s.waker # NoWaker THEN s.waker ELSE w

\* NativePollOutcome that never looks at the data of a completed state.
NativePollOutcomeNeverReady(s) ==
    IF s.completed /\ s.data = NoData THEN "Panic" ELSE "Pending"

\* The waker poll leaves in locked.waker: the stored one when it will wake
\* the context's task, the context's otherwise.
NativePollWaker(s, w) ==
    IF s.waker # NoWaker /\ s.waker = w THEN s.waker ELSE w

\* if locked.completed { Ready(locked.data.take().unwrap()) } else { Pending }
NativePollOutcome(s) ==
    CASE ~s.completed -> "Pending"
      [] s.completed /\ s.data # NoData -> "Ready"
      [] s.completed /\ s.data = NoData -> "Panic"

\* poll is called with waker w.
NativePoll_Call(w) ==
    /\ variant = "native"
    /\ pcC = "idle"
    /\ MayPoll
    /\ pcC' = "npoll_lock"
    /\ cw' = w
    /\ polls' = polls + 1
    /\ polledWith' = polledWith \cup {w}
    /\ notified' = FALSE
    /\ storedAtPoll' = IF shared_state.completed THEN shared_state.data
                       ELSE NoData
    /\ UNCHANGED <<nonFutVars, variant, init, waker_or_result, shared_state, lock, pcB,
                   taken, bval, old, bwaker, started, cancelled, unmaps, woke,
                   lockedEffects, dropped, completeCalls, completeReturns,
                   readyLog, lastOutcome, resultStored, registered,
                   expectWake, inFlightAtDrop, touchedFreed,
                   initRuns>>

\* let mut locked = self.shared_state.lock();
NativePoll_Lock ==
    /\ pcC = "npoll_lock"
    /\ lock = "free"
    /\ lock' = "consumer"
    /\ pcC' = "npoll_waker"
    /\ UNCHANGED <<nonFutVars, variant, init, waker_or_result, shared_state, pcB, cw,
                   taken, bval, old, bwaker, effectVars, histVars>>

\* The waker is stored or replaced.
NativePoll_Waker ==
    /\ pcC = "npoll_waker"
    /\ shared_state' =
         [shared_state EXCEPT !.waker = NativePollWaker(shared_state, cw)]
    /\ pcC' = "npoll_check"
    /\ UNCHANGED <<nonFutVars, variant, init, waker_or_result, lock, pcB, cw, taken, bval,
                   old, bwaker, effectVars, histVars>>

\* The completed check; data.take().unwrap() panics on an emptied `data`, and
\* the guard is released on return and on unwinding alike.
NativePoll_Check ==
    /\ pcC = "npoll_check"
    /\ LET o == NativePollOutcome(shared_state) IN
         /\ lastOutcome' = o
         /\ readyLog' = IF o = "Ready"
                        THEN Append(readyLog, shared_state.data)
                        ELSE readyLog
         /\ shared_state' = IF o = "Pending" THEN shared_state
                            ELSE [shared_state EXCEPT !.data = NoData]
         /\ pcC' = IF o = "Panic" THEN "panicked" ELSE "idle"
    /\ registered' = shared_state.waker
    /\ lock' = "free"
    /\ UNCHANGED <<nonFutVars, variant, init, waker_or_result, pcB, cw, taken, bval, old,
                   bwaker, effectVars, dropped, polls, completeCalls,
                   completeReturns, storedAtPoll, resultStored, expectWake,
                   inFlightAtDrop, touchedFreed,
                   initRuns, polledWith>>

\* ----------------------------- direct.rs: Context::buffer_map_async, callback

\* What buffer_map_future_wrapper leaves in the shared state: the result, the
\* completed flag, and no waker (locked.waker.take()).
WrapperStore(s, v) == [completed |-> TRUE, waker |-> NoWaker, data |-> v]

\* The backend invokes buffer_map_future_wrapper(status, user_data).  It is
\* given the one Arc reference into_raw leaked, so the model lets it run once:
\* a second run would from_raw the same pointer again.
Wrapper_Call(v) ==
    /\ variant = "native"
    /\ pcB = "idle"
    /\ started
    /\ ~cancelled
    /\ completeCalls = 0
    /\ pcB' = "w_lock"
    /\ bval' = v
    /\ completeCalls' = completeCalls + 1
    /\ UNCHANGED <<nonFutVars, variant, init, waker_or_result, shared_state, lock, pcC,
                   cw, taken, old, bwaker, effectVars, dropped, polls,
                   completeReturns, readyLog, lastOutcome, storedAtPoll,
                   resultStored, registered, expectWake, inFlightAtDrop,
                   touchedFreed,
                   initRuns, polledWith>>

\* let mut locked = shared_state.lock();  The state is kept alive by the
\* callback's own Arc reference, but after the future is dropped it is the
\* dropped future's cell that is locked.
Wrapper_Lock ==
    /\ pcB = "w_lock"
    /\ lock = "free"
    /\ lock' = "backend"
    /\ pcB' = "w_store"
    /\ touchedFreed' = (touchedFreed \/ dropped)
    /\ UNCHANGED <<nonFutVars, variant, init, waker_or_result, shared_state, pcC, cw,
                   taken, bval, old, bwaker, effectVars, dropped, polls,
                   completeCalls, completeReturns, readyLog, lastOutcome,
                   storedAtPoll, resultStored, registered, expectWake,
                   inFlightAtDrop,
                   initRuns, polledWith>>

\* locked.data = Some(..); locked.completed = true; waker = locked.waker.take();
Wrapper_Store ==
    /\ pcB = "w_store"
    /\ bwaker' = shared_state.waker
    /\ shared_state' = WrapperStore(shared_state, bval)
    /\ resultStored' = TRUE
    /\ expectWake' = registered
    /\ pcB' = "w_unlock"
    /\ UNCHANGED <<nonFutVars, variant, init, waker_or_result, lock, pcC, cw, taken, bval,
                   old, effectVars, dropped, polls, completeCalls,
                   completeReturns, readyLog, lastOutcome, storedAtPoll,
                   registered, inFlightAtDrop, touchedFreed,
                   initRuns, polledWith>>

\* The inner block ends: the guard, then the Arc reference, are dropped.
Wrapper_Unlock ==
    /\ pcB = "w_unlock"
    /\ lock' = "free"
    /\ pcB' = "w_wake"
    /\ UNCHANGED <<nonFutVars, variant, init, waker_or_result, shared_state, pcC, cw,
                   taken, bval, old, bwaker, effectVars, histVars>>

\* if let Some(w) = waker { w.wake(); }
Wrapper_Wake ==
    /\ pcB = "w_wake"
    /\ IF bwaker # NoWaker
       THEN Wake(bwaker, "backend")
       ELSE UNCHANGED <<woke, notified, lockedEffects>>
    /\ pcB' = "idle"
    /\ completeReturns' = completeReturns + 1
    /\ UNCHANGED <<nonFutVars, variant, init, waker_or_result, shared_state, lock, pcC,
                   cw, taken, bval, old, bwaker, started, cancelled, unmaps,
                   dropped, polls, completeCalls, readyLog, lastOutcome,
                   storedAtPoll, resultStored, registered, expectWake,
                   inFlightAtDrop, touchedFreed,
                   initRuns, polledWith>>

\* ------------------------------------- native_gpu_future.rs: dropping GpuFuture

\* The native GpuFuture has no Drop impl: dropping it releases its Arc
\* reference and does nothing else.
NativeDrop ==
    /\ variant = "native"
    /\ pcC = "idle"
    /\ pcC' = "gone"
    /\ dropped' = TRUE
    /\ inFlightAtDrop' = (started /\ ~resultStored)
    /\ UNCHANGED <<nonFutVars, variant, init, waker_or_result, shared_state, lock, pcB, cw,
                   taken, bval, old, bwaker, effectVars, polls,
                   completeCalls, completeReturns, readyLog, lastOutcome,
                   storedAtPoll, resultStored, registered, expectWake,
                   touchedFreed,
                   initRuns, polledWith>>

\* ------------------------------------------------------------- specification

NextFuture ==
    \/ \E w \in Wakers : Poll_Init(w)
    \/ Poll_Lock
    \/ Poll_Take
    \/ Poll_Match
    \/ \E v \in Results : Complete_Call(v)
    \/ Complete_Lock
    \/ Complete_Replace
    \/ Complete_Match
    \/ Complete_Return
    \/ Drop_Lock
    \/ Drop_Check
    \/ Drop_End
    \/ \E w \in Wakers : NativePoll_Call(w)
    \/ NativePoll_Lock
    \/ NativePoll_Waker
    \/ NativePoll_Check
    \/ \E v \in Results : Wrapper_Call(v)
    \/ Wrapper_Lock
    \/ Wrapper_Store
    \/ Wrapper_Unlock
    \/ Wrapper_Wake
    \/ NativeDrop

\* ------------------------------------------------------------ buffer.rs

\* Option<BufferAddress>
None == <<>>
Some(n) == <<n>>

\* SizeStorage::to_option for ToEnd, BufferAddress and Option<BufferAddress>
ToEnd == "ToEnd"
ToEnd_to_option(s) == None
BufferAddress_to_option(s) == Some(s)
Option_to_option(s) == s

Buffers == {"b1", "b2"}
\* Offsets and sizes handed to range().  BufferAddress is u64; the sums formed
\* within MaxDepth calls of at most MaxInput each stay far below 2^64, so the
\* additions below are exact.
Inputs == 0..MaxInput

\* struct BufferRange<'a, Size> {buffer, offset, size: Size::Storage}; `kind`
\* is the type parameter Size.
BufferRange(buffer, kind, offset, size) ==
    [buffer |-> buffer, kind |-> kind, offset |-> offset, size |-> size]

\* impl RangedBuffer<ToEnd, Unbounded> for &Buffer
Buffer_range_ToEnd(buffer, offset, size) ==
    BufferRange(buffer, "Unbounded", offset, size)

\* impl RangedBuffer<BufferAddress, Bounded> for &Buffer
Buffer_range_Bounded(buffer, offset, size) ==
    BufferRange(buffer, "Bounded", offset, size)

\* impl RangedBuffer<Option<BufferAddress>, Unsure> for &Buffer
Buffer_range_Unsure(buffer, offset, size) ==
    BufferRange(buffer, "Unsure", offset, size)

\* The assert! of Bounded -> Bounded range()
Bounded_range_assert(self, offset, size) == self.offset + size <= self.size

\* impl RangedBuffer<BufferAddress, Bounded> for BufferRange<Bounded>
Bounded_range_Bounded(self, offset, size) ==
    BufferRange(self.buffer, "Bounded", self.offset + offset, size)

\* impl RangedBuffer<ToEnd, Bounded> for BufferRange<Bounded>
Bounded_range_ToEnd(self, offset) ==
    BufferRange(self.buffer, "Bounded", self.offset + offset, self.size)

\* Unbounded_range_ToEnd that forgets the sub-offset.
Unbounded_range_ToEnd_KeepOffset(self, offset, size) ==
    BufferRange(self.buffer, "Unbounded", self.offset, size)

\* impl RangedBuffer<ToEnd, Unbounded> for BufferRange<Unbounded>
Unbounded_range_ToEnd(self, offset, size) ==
    BufferRange(self.buffer, "Unbounded", self.offset + offset, size)

\* impl RangedBuffer<BufferAddress, Bounded> for BufferRange<Unbounded>
Unbounded_range_Bounded(self, offset, size) ==
    BufferRange(self.buffer, "Bounded", self.offset + offset, size)

\* impl RangedBuffer<Option<BufferAddress>, Unsure> for BufferRange<Unbounded>
Unbounded_range_Unsure(self, offset, size) ==
    BufferRange(self.buffer, "Unsure", self.offset + offset, size)

\* The assert! of Unsure -> Unsure range(): it is reached only when both
\* sizes are known.
Unsure_range_assert(self, size) ==
    (self.size # None /\ size # None) => self.size[1] >= size[1]

\* Unsure_range_size with the arm for a known size asked of an unknown one
\* yielding None.
Unsure_range_size_DropsNew(self, size) ==
    CASE self.size = None /\ size = None -> None
      [] self.size # None /\ size = None -> self.size
      [] self.size = None /\ size # None -> None
      [] self.size # None /\ size # None -> size

\* The match on (self.size, size) of Unsure -> Unsure range()
Unsure_range_size(self, size) ==
    CASE self.size = None /\ size = None -> None
      [] self.size # None /\ size = None -> self.size
      [] self.size = None /\ size # None -> size
      [] self.size # None /\ size # None -> size

\* impl RangedBuffer<Option<BufferAddress>, Unsure> for BufferRange<Unsure>
Unsure_range_Unsure(self, offset, size) ==
    BufferRange(self.buffer, "Unsure", self.offset + offset,
                Unsure_range_size(self, size))

\* impl From<BufferRange<Size: StaticSizedBuffer>> for BufferRange<Unsure>
From_Static(range) ==
    BufferRange(range.buffer, "Unsure", range.offset,
                IF range.kind = "Bounded"
                THEN BufferAddress_to_option(range.size)
                ELSE ToEnd_to_option(range.size))

\* The ranges a caller can make of a &Buffer: the three impls for &Buffer and
\* the two From<&Buffer> conversions (buffer.range(0, ToEnd), and .into()).
FromBuffer ==
    {Buffer_range_ToEnd(b, o, ToEnd) : b \in Buffers, o \in Inputs}
    \cup {Buffer_range_Bounded(b, o, n) : b \in Buffers, o \in Inputs, n \in Inputs}
    \cup {Buffer_range_Unsure(b, o, Some(n)) : b \in Buffers, o \in Inputs, n \in Inputs}
    \cup {Buffer_range_Unsure(b, o, None) : b \in Buffers, o \in Inputs}
    \cup {From_Static(Buffer_range_ToEnd(b, 0, ToEnd)) : b \in Buffers}

Call(op, offset, size) == [op |-> op, offset |-> offset, size |-> size]

InitRange ==
    /\ rng \in FromBuffer
    /\ rparent = rng
    /\ rcall = Call("buffer", 0, None)
    /\ rstatus = "ok"
    /\ rdepth = 0

\* No range is being built: the value the range variables keep while the
\* futures run.
RangeIdle ==
    /\ rng = Buffer_range_ToEnd("b1", 0, ToEnd)
    /\ rparent = rng
    /\ rcall = Call("buffer", 0, None)
    /\ rstatus = "ok"
    /\ rdepth = 0

\* A range() call on `rng` that yields `result`, or panics when `asserted`
\* is false.
RangeCall(op, offset, size, asserted, result) ==
    /\ rstatus = "ok"
    /\ rdepth < MaxDepth
    /\ rdepth' = rdepth + 1
    /\ rcall' = Call(op, offset, size)
    /\ rparent' = rng
    /\ IF asserted
       THEN rng' = result /\ rstatus' = "ok"
       ELSE rng' = rng /\ rstatus' = "panic"
    /\ UNCHANGED nonRangeVars

\* bounded.range(offset, size)
Range_Bounded_Bounded(offset, size) ==
    /\ rng.kind = "Bounded"
    /\ RangeCall("Bounded_Bounded", offset, Some(size),
                 Bounded_range_assert(rng, offset, size),
                 Bounded_range_Bounded(rng, offset, size))

\* bounded.range(offset, ToEnd)
Range_Bounded_ToEnd(offset) ==
    /\ rng.kind = "Bounded"
    /\ RangeCall("Bounded_ToEnd", offset, None, TRUE,
                 Bounded_range_ToEnd(rng, offset))

\* unbounded.range(offset, ToEnd)
Range_Unbounded_ToEnd(offset) ==
    /\ rng.kind = "Unbounded"
    /\ RangeCall("Unbounded_ToEnd", offset, None, TRUE,
                 Unbounded_range_ToEnd(rng, offset, ToEnd))

\* unbounded.range(offset, size)
Range_Unbounded_Bounded(offset, size) ==
    /\ rng.kind = "Unbounded"
    /\ RangeCall("Unbounded_Bounded", offset, Some(size), TRUE,
                 Unbounded_range_Bounded(rng, offset, size))

\* unbounded.range(offset, Some(size) or None)
Range_Unbounded_Unsure(offset, size) ==
    /\ rng.kind = "Unbounded"
    /\ RangeCall("Unbounded_Unsure", offset, size, TRUE,
                 Unbounded_range_Unsure(rng, offset, size))

\* unsure.range(offset, Some(size) or None)
Range_Unsure_Unsure(offset, size) ==
    /\ rng.kind = "Unsure"
    /\ RangeCall("Unsure_Unsure", offset, size,
                 Unsure_range_assert(rng, size),
                 Unsure_range_Unsure(rng, offset, size))

\* unsure.range(offset, size): impl<Storage: StaticSizeStorage> ... for
\* BufferRange<Unsure>, which calls self.range(offset, size.to_option())
Range_Unsure_Address(offset, size) ==
    /\ rng.kind = "Unsure"
    /\ RangeCall("Unsure_Address", offset, Some(size),
                 Unsure_range_assert(rng, BufferAddress_to_option(size)),
                 Unsure_range_Unsure(rng, offset,
                                     BufferAddress_to_option(size)))

\* unsure.range(offset, ToEnd), by the same impl
Range_Unsure_ToEnd(offset) ==
    /\ rng.kind = "Unsure"
    /\ RangeCall("Unsure_ToEnd", offset, None,
                 Unsure_range_assert(rng, ToEnd_to_option(ToEnd)),
                 Unsure_range_Unsure(rng, offset, ToEnd_to_option(ToEnd)))

\* range.into(): a Bounded or Unbounded range becomes an Unsure one
Range_Into ==
    /\ rng.kind \in {"Bounded", "Unbounded"}
    /\ rstatus = "ok"
    /\ rcall' = Call("into", 0, None)
    /\ rparent' = rng
    /\ rng' = From_Static(rng)
    /\ UNCHANGED <<rstatus, rdepth>>
    /\ UNCHANGED nonRangeVars

OptionInputs == {None} \cup {Some(n) : n \in Inputs}

NextRange ==
    \/ \E o \in Inputs, n \in Inputs : Range_Bounded_Bounded(o, n)
    \/ \E o \in Inputs : Range_Bounded_ToEnd(o)
    \/ \E o \in Inputs : Range_Unbounded_ToEnd(o)
    \/ \E o \in Inputs, n \in Inputs : Range_Unbounded_Bounded(o, n)
    \/ \E o \in Inputs, n \in OptionInputs : Range_Unbounded_Unsure(o, n)
    \/ \E o \in Inputs, n \in OptionInputs : Range_Unsure_Unsure(o, n)
    \/ \E o \in Inputs, n \in Inputs : Range_Unsure_Address(o, n)
    \/ \E o \in Inputs : Range_Unsure_ToEnd(o)
    \/ Range_Into

\* No future is at work: the value the futures' variables keep while ranges
\* are built.
\* ----------------------------------------------- lib.rs: CommandEncoder

PassIds == 1..MaxPasses
NoCopy == <<>>

\* The bytes a buffer holds when the encoder is created: the source buffer
\* b1 holds distinct bytes, the destination buffer b2 holds zeroes.
InitialBytes(b) ==
    [i \in 1..AllocatedSize |-> IF b = "b1" THEN i ELSE 0]

\* Device::create_command_encoder: an encoder owned by the caller, recording.
InitEncoder ==
    /\ enc_owner = "caller"
    /\ pass_alive = {}
    /\ pass_kind = [p \in PassIds |-> "none"]
    /\ pass_cmds = [p \in PassIds |-> 0]
    /\ pass_ended = [p \in PassIds |-> 0]
    /\ pass_unwound = {}
    /\ passes_begun = 0
    /\ panicking = FALSE
    /\ stream = <<>>
    /\ cmdbuf = None
    /\ finishes = 0
    /\ queue_state = "idle"
    /\ mem = [b \in Buffers |-> InitialBytes(b)]
    /\ copy_req = NoCopy

\* A method taking `&mut self` or `self` compiles only where the encoder is
\* neither mutably borrowed (RenderPass::_parent, ComputePass::_parent) nor
\* moved out (finish(self)).
UsableAlways(owner) == TRUE

Usable(owner) == owner = "caller"

\* begin_render_pass / begin_compute_pass: the backend starts a pass and the
\* returned object keeps the encoder mutably borrowed.
BeginPass(kind) ==
    /\ Usable(enc_owner)
    /\ ~panicking
    /\ passes_begun < MaxPasses
    /\ LET p == passes_begun + 1 IN
        /\ passes_begun' = p
        /\ pass_alive' = pass_alive \cup {p}
        /\ pass_kind' = [pass_kind EXCEPT ![p] = kind]
    /\ enc_owner' = "pass"
    /\ UNCHANGED <<nonEncVars, pass_cmds, pass_ended, pass_unwound, panicking,
                   stream, cmdbuf, finishes, queue_state, mem, copy_req>>

Begin_render_pass == BeginPass("render")

Begin_compute_pass == BeginPass("compute")

\* RenderPass::draw, ComputePass::dispatch, ...: one more command in the pass.
Pass_record ==
    /\ ~panicking
    /\ \E p \in pass_alive :
        /\ pass_cmds[p] < MaxPassCmds
        /\ pass_cmds' = [pass_cmds EXCEPT ![p] = @ + 1]
    /\ UNCHANGED <<nonEncVars, enc_owner, pass_alive, pass_kind, pass_ended,
                   pass_unwound, passes_begun, panicking, stream, cmdbuf,
                   finishes, queue_state, mem, copy_req>>

\* A panic inside the scope of a pass: the thread starts to unwind.
Panic ==
    /\ ~panicking
    /\ pass_alive # {}
    /\ panicking' = TRUE
    /\ UNCHANGED <<nonEncVars, enc_owner, pass_alive, pass_kind, pass_cmds,
                   pass_ended, pass_unwound, passes_begun, stream, cmdbuf,
                   finishes, queue_state, mem, copy_req>>

\* std::panic::catch_unwind around the scope of the pass: the unwinding stops
\* and the encoder, owned outside that scope, is in the caller's hands again.
Catch_unwind ==
    /\ panicking
    /\ pass_alive = {}
    /\ panicking' = FALSE
    /\ UNCHANGED <<nonEncVars, enc_owner, pass_alive, pass_kind, pass_cmds,
                   pass_ended, pass_unwound, passes_begun, stream, cmdbuf,
                   finishes, queue_state, mem, copy_req>>

\* `if !thread::panicking()` of both Drop impls, made unconditional.
DropEndsPassAlways(unwinding) == TRUE

\* `if !thread::panicking()`: whether drop calls wgpu_*_pass_end_pass.
DropEndsPass(unwinding) == ~unwinding

\* wgpu_render_pass_end_pass / wgpu_compute_pass_end_pass: the commands of the
\* pass go into the encoder's stream.
EndPass(s, p) ==
    Append(s, [op |-> "pass", id |-> p, kind |-> pass_kind[p],
               cmds |-> pass_cmds[p]])

\* impl Drop for RenderPass / ComputePass: the pass object leaves its scope,
\* by a normal exit or by unwinding, and the borrow of the encoder ends.
DropPass(kind) ==
    \E p \in pass_alive :
        /\ pass_kind[p] = kind
        /\ pass_alive' = pass_alive \ {p}
        /\ enc_owner' = "caller"
        /\ pass_unwound' = IF panicking THEN pass_unwound \cup {p}
                           ELSE pass_unwound
        /\ IF DropEndsPass(panicking)
           THEN /\ pass_ended' = [pass_ended EXCEPT ![p] = @ + 1]
                /\ stream' = EndPass(stream, p)
           ELSE UNCHANGED <<pass_ended, stream>>
        /\ UNCHANGED <<nonEncVars, pass_kind, pass_cmds, passes_begun,
                       panicking, cmdbuf, finishes, queue_state, mem, copy_req>>

Drop_RenderPass == DropPass("render")

Drop_ComputePass == DropPass("compute")

\* The copy command CommandEncoder::copy_buffer_to_buffer hands to
\* wgpu_command_encoder_copy_buffer_to_buffer.
CopyCommand(source, destination) ==
    [op |-> "copy",
     src |-> source.buffer, src_offset |-> source.offset,
     dst |-> destination.buffer, dst_offset |-> source.offset,
     size |-> source.size]

\* A copy lies inside both buffers.
CopyFits(buffer_offset, size) == buffer_offset + size <= AllocatedSize

\* CommandEncoder::copy_buffer_to_buffer(&mut self, source, destination): the
\* copies tried are those that are valid as asked for and as recorded.
Copy_buffer_to_buffer(source, destination) ==
    /\ Usable(enc_owner)
    /\ ~panicking
    /\ Len(SelectSeq(stream, LAMBDA c : c.op = "copy")) < MaxCopies
    /\ source.size > 0
    /\ CopyFits(source.offset, source.size)
    /\ CopyFits(destination.offset, source.size)
    /\ stream' = Append(stream, CopyCommand(source, destination))
    /\ copy_req' = <<[source |-> source, destination |-> destination]>>
    /\ UNCHANGED <<nonEncVars, enc_owner, pass_alive, pass_kind, pass_cmds,
                   pass_ended, pass_unwound, passes_begun, panicking, cmdbuf,
                   finishes, queue_state, mem>>

\* finish that borrows the encoder instead of consuming it.
FinishKeeps(owner) == owner

\* CommandEncoder::finish(self): the encoder is moved into the call.
FinishConsumes(owner) == "moved"

Finish ==
    /\ Usable(enc_owner)
    /\ ~panicking
    /\ finishes < 2
    /\ enc_owner' = FinishConsumes(enc_owner)
    /\ cmdbuf' = Some(stream)
    /\ finishes' = finishes + 1
    /\ UNCHANGED <<nonEncVars, pass_alive, pass_kind, pass_cmds, pass_ended,
                   pass_unwound, passes_begun, panicking, stream, queue_state,
                   mem, copy_req>>

\* Queue::submit(&[CommandBuffer])
Queue_submit ==
    /\ cmdbuf # None
    /\ queue_state = "idle"
    /\ queue_state' = "submitted"
    /\ UNCHANGED <<nonEncVars, enc_owner, pass_alive, pass_kind, pass_cmds,
                   pass_ended, pass_unwound, passes_begun, panicking, stream,
                   cmdbuf, finishes, mem, copy_req>>

\* What the device does with one command: a copy moves `size` bytes.
Execute(m, c) ==
    IF c.op = "copy"
    THEN [m EXCEPT ![c.dst] =
            [i \in 1..AllocatedSize |->
                IF i - 1 >= c.dst_offset /\ i - 1 < c.dst_offset + c.size
                THEN m[c.src][c.src_offset + (i - c.dst_offset)]
                ELSE m[c.dst][i]]]
    ELSE m

RECURSIVE ExecuteAll(_, _)
ExecuteAll(m, cmds) ==
    IF cmds = <<>> THEN m
    ELSE ExecuteAll(Execute(m, Head(cmds)), Tail(cmds))

\* Device::poll(force_wait): with force_wait the call returns once the
\* submitted work is done; without it the work may or may not be done yet.
Device_poll(force_wait) ==
    /\ queue_state = "submitted"
    /\ \E finished \in (IF force_wait THEN {TRUE} ELSE BOOLEAN) :
        IF finished
        THEN /\ mem' = ExecuteAll(mem, cmdbuf[1])
             /\ queue_state' = "done"
        ELSE UNCHANGED <<mem, queue_state>>
    /\ UNCHANGED <<nonEncVars, enc_owner, pass_alive, pass_kind, pass_cmds,
                   pass_ended, pass_unwound, passes_begun, panicking, stream,
                   cmdbuf, finishes, copy_req>>

\* The ranges handed to copy_buffer_to_buffer: a Bounded range of the source
\* buffer b1 and an Unbounded range of the destination buffer b2.
CopyOffsets == 0..(AllocatedSize - 1)
CopySizes == 1..AllocatedSize

\* Recording with passes: every operation of the encoder, the copy being of
\* the first byte of b1 to the start of b2.
NextEncoder ==
    \/ Begin_render_pass
    \/ Begin_compute_pass
    \/ Pass_record
    \/ Panic
    \/ Catch_unwind
    \/ Drop_RenderPass
    \/ Drop_ComputePass
    \/ Copy_buffer_to_buffer(Buffer_range_Bounded("b1", 0, 1),
                             Buffer_range_ToEnd("b2", 0, ToEnd))
    \/ Finish
    \/ Queue_submit
    \/ \E force_wait \in BOOLEAN : Device_poll(force_wait)

\* Copies of every range, then finish, submit and poll (no pass is begun).
NextCopy ==
    \/ \E so, do \in CopyOffsets, size \in CopySizes :
        Copy_buffer_to_buffer(Buffer_range_Bounded("b1", so, size),
                              Buffer_range_ToEnd("b2", do, ToEnd))
    \/ Finish
    \/ Queue_submit
    \/ \E force_wait \in BOOLEAN : Device_poll(force_wait)

\* ------------------------------------------- direct.rs: devices and sinks

Devices == {"d1", "d2"}
Resources == {"r1", "r2"}
\* The sinks: one made for each device by request_device, named after it, and
\* one that belongs to no device.
DetachedSink == "detached"
Sinks == Devices \cup {DetachedSink}
\* device.error_sink
DeviceSink(d) == d
\* default_error_handler and the handlers a caller may install.
DefaultHandler == "default"
UserHandlers == {"h1", "h2"}

\* Context::adapter_request_device for each device: a new sink with the
\* default handler, no work submitted, no resource created.
InitDevice ==
    /\ proc = "running"
    /\ fatal_raised = FALSE
    /\ metal_auto_capture \in BOOLEAN
    /\ dev_pc = [d \in Devices |-> "alive"]
    /\ submitted = [d \in Devices |-> 0]
    /\ completed = [d \in Devices |-> 0]
    /\ drop_polls = [d \in Devices |-> 0]
    /\ drop_waited = [d \in Devices |-> FALSE]
    /\ teardowns = [d \in Devices |-> 0]
    /\ teardown_early = [d \in Devices |-> FALSE]
    /\ res_kind = [r \in Resources |-> "none"]
    /\ res_device = [r \in Resources |-> "none"]
    /\ res_sink = [r \in Resources |-> "none"]
    /\ res_handle = [r \in Resources |-> "none"]
    /\ destroy_calls = [r \in Resources |-> 0]
    /\ drop_calls = [r \in Resources |-> 0]
    /\ sink_handler = [s \in Sinks |-> DefaultHandler]
    /\ installed_after = [r \in Resources |-> FALSE]
    /\ delivered = None

DeviceIdle == InitDevice /\ metal_auto_capture = FALSE

\* handle_error_fatal that logs the error and returns.
FatalErrorIgnored(p) == p

\* Context::handle_error_fatal: panic!("Error in {}: {}", string, cause).
FatalError(p) == "panicked"

\* The outcome of a backend call whose Err goes to handle_error_fatal.
OkOrFatal(ok) ==
    /\ proc' = IF ok THEN proc ELSE FatalError(proc)
    /\ fatal_raised' = (fatal_raised \/ ~ok)

\* Context::queue_submit on the queue of device d; an Err from the backend is
\* fatal and nothing is submitted.
Context_queue_submit(d) ==
    /\ proc = "running"
    /\ dev_pc[d] = "alive"
    /\ submitted[d] < MaxWork
    /\ \E ok \in BOOLEAN :
        /\ OkOrFatal(ok)
        /\ submitted' = IF ok THEN [submitted EXCEPT ![d] = @ + 1]
                        ELSE submitted
    /\ UNCHANGED <<nonDevVars, resVars, metal_auto_capture, dev_pc,
                   completed, drop_polls, drop_waited, teardowns,
                   teardown_early>>

\* The GPU finishes one submitted command buffer of device d.
Gpu_completes(d) ==
    /\ completed[d] < submitted[d]
    /\ completed' = [completed EXCEPT ![d] = @ + 1]
    /\ UNCHANGED <<nonDevVars, fatal_raised, resVars, proc, metal_auto_capture, dev_pc,
                   submitted, drop_polls, drop_waited, teardowns,
                   teardown_early>>

\* global.device_poll(id, force_wait) returning Ok: with force_wait every
\* submitted command buffer is finished, without it any number of them.
PollOutcomes(d, force_wait) ==
    IF force_wait THEN {submitted[d]} ELSE completed[d]..submitted[d]

\* Context::device_poll(device, maintain)
Context_device_poll(d, maintain) ==
    /\ proc = "running"
    /\ dev_pc[d] = "alive"
    /\ \E ok \in BOOLEAN :
        /\ OkOrFatal(ok)
        /\ IF ok
           THEN \E n \in PollOutcomes(d, maintain = "Wait") :
                    completed' = [completed EXCEPT ![d] = n]
           ELSE UNCHANGED completed
    /\ UNCHANGED <<nonDevVars, resVars, metal_auto_capture, dev_pc, submitted,
                   drop_polls, drop_waited, teardowns, teardown_early>>

\* The drop's poll made without waiting.
DropForceWaitOff == FALSE

\* The `true` of global.device_poll(device.id, true) in device_drop.
DropForceWait == TRUE

\* Context::device_drop, first block: the poll.
Device_drop_poll(d) ==
    /\ proc = "running"
    /\ dev_pc[d] = "alive"
    /\ dev_pc' = [dev_pc EXCEPT ![d] = "polled"]
    /\ drop_polls' = [drop_polls EXCEPT ![d] = @ + 1]
    /\ drop_waited' = [drop_waited EXCEPT ![d] = completed[d] < submitted[d]]
    /\ \E ok \in BOOLEAN :
        /\ OkOrFatal(ok)
        /\ IF ok
           THEN \E n \in PollOutcomes(d, DropForceWait) :
                    completed' = [completed EXCEPT ![d] = n]
           ELSE UNCHANGED completed
    /\ UNCHANGED <<nonDevVars, resVars, metal_auto_capture, submitted,
                   teardowns, teardown_early>>

\* Context::device_drop, second block: global.device_drop, compiled in only
\* with feature "metal-auto-capture".
Device_drop_teardown(d) ==
    /\ proc = "running"
    /\ dev_pc[d] = "polled"
    /\ dev_pc' = [dev_pc EXCEPT ![d] = "dropped"]
    /\ IF metal_auto_capture
       THEN /\ teardowns' = [teardowns EXCEPT ![d] = @ + 1]
            /\ teardown_early' =
                [teardown_early EXCEPT ![d] = completed[d] < submitted[d]]
       ELSE UNCHANGED <<teardowns, teardown_early>>
    /\ UNCHANGED <<nonDevVars, fatal_raised, resVars, proc, metal_auto_capture, submitted,
                   completed, drop_polls, drop_waited>>

NextDeviceDrop ==
    \/ \E d \in Devices : Context_queue_submit(d)
    \/ \E d \in Devices : Gpu_completes(d)
    \/ \E d \in Devices, maintain \in {"Poll", "Wait"} :
        Context_device_poll(d, maintain)
    \/ \E d \in Devices : Device_drop_poll(d)
    \/ \E d \in Devices : Device_drop_teardown(d)

\* Arc::new(Mutex::new(ErrorSinkRaw::new())): a sink of the resource's own.
NewSink(sink) == DetachedSink

\* Arc::clone(&device.error_sink): the same sink, shared.
CloneSink(sink) == sink

\* A default handler that logs and returns.
HandlerNeverPanics(handler) == FALSE

\* default_error_handler panics ("Handling wgpu errors as fatal by default");
\* an installed handler returns.
HandlerPanics(handler) == handler = DefaultHandler

\* Context::handle_error(sink_mutex, cause, ..) for an error raised on
\* resource r of device d: the handler installed on the sink is called with a
\* ValidationError (or OutOfMemoryError); default_error_handler panics.  The
\* record also keeps what was installed on d's own sink at that moment, and
\* whether a handler had been installed on d since r was created.
HandleError(sink, r, d) ==
    /\ delivered' = Some([res |-> r, sink |-> sink,
                          handler |-> sink_handler[sink],
                          installed |-> sink_handler[DeviceSink(d)],
                          late |-> installed_after[r]])
    /\ proc' = IF HandlerPanics(sink_handler[sink]) THEN "panicked" ELSE proc

\* Context::device_create_buffer / device_create_texture /
\* device_create_command_encoder: the backend call, its error if any handed
\* to the device's sink, and the new resource sharing that sink.
DeviceCreate(d, r, kind) ==
    /\ proc = "running"
    /\ dev_pc[d] = "alive"
    /\ res_kind[r] = "none"
    /\ \E error \in BOOLEAN :
        IF error THEN HandleError(DeviceSink(d), r, d)
        ELSE UNCHANGED <<delivered, proc>>
    /\ res_kind' = [res_kind EXCEPT ![r] = kind]
    /\ res_device' = [res_device EXCEPT ![r] = d]
    /\ res_sink' = [res_sink EXCEPT ![r] = CloneSink(DeviceSink(d))]
    /\ res_handle' = [res_handle EXCEPT ![r] = "alive"]
    /\ UNCHANGED <<nonDevVars, fatal_raised, dropVars, destroy_calls, drop_calls,
                   sink_handler, installed_after>>

Device_create_buffer(d, r) == DeviceCreate(d, r, "buffer")

Device_create_texture(d, r) == DeviceCreate(d, r, "texture")

Device_create_command_encoder(d, r) == DeviceCreate(d, r, "encoder")

\* Context::device_on_uncaptured_error: the handler of the device's sink is
\* replaced in place, under the sink's mutex.
Device_on_uncaptured_error(d, handler) ==
    /\ proc = "running"
    /\ dev_pc[d] = "alive"
    /\ sink_handler' = [sink_handler EXCEPT ![DeviceSink(d)] = handler]
    /\ installed_after' =
        [r \in Resources |-> installed_after[r] \/ res_device[r] = d]
    /\ UNCHANGED <<nonDevVars, fatal_raised, dropVars, proc, res_kind, res_device, res_sink,
                   res_handle, destroy_calls, drop_calls, delivered>>

\* An operation on resource r whose backend call may return an error, which
\* goes to the sink the resource holds.
OperationOn(r, kind) ==
    /\ proc = "running"
    /\ res_kind[r] = kind
    /\ res_handle[r] = "alive"
    /\ \E error \in BOOLEAN :
        IF error THEN HandleError(res_sink[r], r, res_device[r])
        ELSE UNCHANGED <<delivered, proc>>
    /\ UNCHANGED <<nonDevVars, fatal_raised, dropVars, res_kind, res_device, res_sink,
                   res_handle, destroy_calls, drop_calls, sink_handler,
                   installed_after>>

\* Context::buffer_unmap
Buffer_unmap(r) == OperationOn(r, "buffer")

\* Context::texture_create_view
Texture_create_view(r) == OperationOn(r, "texture")

\* Context::command_encoder_copy_buffer_to_buffer
Context_copy_buffer_to_buffer(r) == OperationOn(r, "encoder")

\* Context::buffer_destroy / texture_destroy: the backend's destroy is called,
\* and an Err from it is fatal.
ResourceDestroy(r, kind) ==
    /\ proc = "running"
    /\ res_kind[r] = kind
    /\ res_handle[r] = "alive"
    /\ destroy_calls[r] < MaxDestroys
    /\ destroy_calls' = [destroy_calls EXCEPT ![r] = @ + 1]
    /\ \E ok \in BOOLEAN : OkOrFatal(ok)
    /\ UNCHANGED <<nonDevVars, dropVars, res_kind, res_device, res_sink,
                   res_handle, drop_calls, sink_handler, installed_after,
                   delivered>>

Buffer_destroy(r) == ResourceDestroy(r, "buffer")

Texture_destroy(r) == ResourceDestroy(r, "texture")

\* A drop that leaves out the backend call for a resource destroyed before.
DropIssuesUnlessDestroyed(destroyed) == ~destroyed

\* Context::buffer_drop / texture_drop call the backend whatever came before.
DropIssues(destroyed) == TRUE

\* Context::buffer_drop / texture_drop, run when the handle is dropped.
ResourceDrop(r, kind) ==
    /\ proc = "running"
    /\ res_kind[r] = kind
    /\ res_handle[r] = "alive"
    /\ res_handle' = [res_handle EXCEPT ![r] = "dropped"]
    /\ drop_calls' = IF DropIssues(destroy_calls[r] > 0)
                     THEN [drop_calls EXCEPT ![r] = @ + 1]
                     ELSE drop_calls
    /\ UNCHANGED <<nonDevVars, fatal_raised, dropVars, proc, res_kind, res_device, res_sink,
                   destroy_calls, sink_handler, installed_after, delivered>>

Buffer_drop(r) == ResourceDrop(r, "buffer")

Texture_drop(r) == ResourceDrop(r, "texture")

NextResource ==
    \/ \E d \in Devices, r \in Resources : Device_create_buffer(d, r)
    \/ \E d \in Devices, r \in Resources : Device_create_texture(d, r)
    \/ \E d \in Devices, r \in Resources : Device_create_command_encoder(d, r)
    \/ \E d \in Devices, handler \in UserHandlers :
        Device_on_uncaptured_error(d, handler)
    \/ \E r \in Resources : Buffer_unmap(r)
    \/ \E r \in Resources : Texture_create_view(r)
    \/ \E r \in Resources : Context_copy_buffer_to_buffer(r)
    \/ \E r \in Resources : Buffer_destroy(r)
    \/ \E r \in Resources : Texture_destroy(r)
    \/ \E r \in Resources : Buffer_drop(r)
    \/ \E r \in Resources : Texture_drop(r)

\* ------------------------------------------------ direct.rs: handle_error

\* The errors wgpu-core reports, as far as handle_error tells them apart:
\* the variants of wgc::device::DeviceError and every other error type.
DeviceErrors == {"DeviceError::Invalid", "DeviceError::Lost",
                 "DeviceError::OutOfMemory"}
CoreErrors == DeviceErrors \cup {"Other"}

\* A cause with its chain of sources, outermost first.
CauseChains == UNION {[1..n -> CoreErrors] : n \in 1..MaxChain}

NoFailure == <<>>

InitHandleError ==
    /\ he_state = "idle"
    /\ he_cause = NoFailure
    /\ he_sunk = <<>>

\* ContextError wraps the cause: the walk starts at the ContextError, whose
\* source() is the cause.
ContextError(cause) == <<"ContextError">> \o cause

\* A backend call returns Err(cause).
Backend_error(cause) ==
    /\ he_state = "idle"
    /\ he_state' = "failed"
    /\ he_cause' = cause
    /\ he_sunk' = <<>>
    /\ UNCHANGED nonHeVars

\* The walk without the `return`: after the out-of-memory error the loop goes
\* on and the validation error is delivered too.
RECURSIVE WalkSourcesNoReturn(_, _)
WalkSourcesNoReturn(chain, i) ==
    IF i > Len(chain)
    THEN <<"ValidationError">>
    ELSE IF chain[i] \in DeviceErrors /\ chain[i] = "DeviceError::OutOfMemory"
         THEN <<"OutOfMemoryError">> \o WalkSourcesNoReturn(chain, i + 1)
         ELSE WalkSourcesNoReturn(chain, i + 1)

\* handle_error's loop over source_opt, from the i-th error of the chain on:
\* the errors handed to sink.handle_error, in order.
RECURSIVE WalkSources(_, _)
WalkSources(chain, i) ==
    IF i > Len(chain)
    THEN <<"ValidationError">>
    ELSE IF chain[i] \in DeviceErrors /\ chain[i] = "DeviceError::OutOfMemory"
         THEN <<"OutOfMemoryError">>
         ELSE WalkSources(chain, i + 1)

\* Context::handle_error on the failure in hand.
Handle_error ==
    /\ he_state = "failed"
    /\ he_state' = "idle"
    /\ he_sunk' = WalkSources(ContextError(he_cause), 1)
    /\ UNCHANGED <<nonHeVars, he_cause>>

NextHandleError ==
    \/ \E cause \in CauseChains : Backend_error(cause)
    \/ Handle_error


\* ------------------------------------------- lib.rs, direct.rs: adapters

AdapterIds == {"a1", "a2"}

\* wgc::id::AdapterId::ERROR
AdapterId_ERROR == "ERROR"

InitAdapter == ar_log = <<>>

\* Adapter::request (lib.rs): id starts as ERROR, the callback stores the id
\* the backend passes it, and Some(Adapter { id }) is returned.
Adapter_request(callback_id) ==
    /\ Len(ar_log) < MaxRequests
    /\ LET id == callback_id IN
        ar_log' = Append(ar_log, [via |-> "Adapter::request",
                                  found |-> callback_id # AdapterId_ERROR,
                                  returned |-> Some([id |-> id])])
    /\ UNCHANGED nonAdapterVars

\* Result::ok of the backend's request_adapter result.
ResultOk(result) == IF result.ok THEN Some([id |-> result.id]) ELSE None

\* Context::instance_request_adapter (direct.rs): ready(id.ok()).
Context_instance_request_adapter(result) ==
    /\ Len(ar_log) < MaxRequests
    /\ ar_log' = Append(ar_log, [via |-> "Context::instance_request_adapter",
                                 found |-> result.ok,
                                 returned |-> ResultOk(result)])
    /\ UNCHANGED nonAdapterVars

\* What the backend's request_adapter may return.
AdapterResults ==
    {[ok |-> TRUE, id |-> a] : a \in AdapterIds}
        \cup {[ok |-> FALSE, id |-> AdapterId_ERROR]}

NextAdapter ==
    \/ \E id \in AdapterIds \cup {AdapterId_ERROR} : Adapter_request(id)
    \/ \E result \in AdapterResults : Context_instance_request_adapter(result)

\* ------------------------------------------------------ lib.rs: swap chain

ViewIds == {"v1", "v2"}

\* wgc::id::Id::ERROR
ViewId_ERROR == "ERROR"

NoOutput == <<>>

InitSwapChain ==
    /\ sc_panicking = FALSE
    /\ sc_output = NoOutput
    /\ sc_backend = <<>>
    /\ sc_acquired = 0
    /\ sc_errs = 0
    /\ sc_presents = 0
    /\ sc_unwound = 0
    /\ sc_owned_live = 0
    /\ sc_owned_dropped = 0
    /\ sc_view_destroys = 0

\* SwapChain::get_next_texture: `&mut self`, and the output returned borrows
\* the swap chain, so no other output is alive at the call.
SwapChain_get_next_texture(view_id) ==
    /\ ~sc_panicking
    /\ sc_output = NoOutput
    /\ Len(sc_backend) < MaxFrames
    /\ sc_backend' = Append(sc_backend, view_id)
    /\ IF view_id = ViewId_ERROR
       THEN /\ sc_errs' = sc_errs + 1
            /\ UNCHANGED <<sc_output, sc_acquired>>
       ELSE /\ sc_output' = Some([view |-> [id |-> view_id, owned |-> FALSE]])
            /\ sc_acquired' = sc_acquired + 1
            /\ UNCHANGED sc_errs
    /\ UNCHANGED <<nonSwapVars, sc_panicking, sc_presents, sc_unwound,
                   sc_owned_live, sc_owned_dropped, sc_view_destroys>>

\* impl Drop for TextureView: the number of wgpu_texture_view_destroy calls
\* after a view is dropped.
Drop_TextureView(owned, destroys) == IF owned THEN destroys + 1 ELSE destroys

\* Texture::create_default_view: a view the caller owns.
Texture_create_default_view ==
    /\ ~sc_panicking
    /\ sc_owned_live + sc_owned_dropped < MaxFrames
    /\ sc_owned_live' = sc_owned_live + 1
    /\ UNCHANGED <<nonSwapVars, sc_panicking, sc_output, sc_backend,
                   sc_acquired, sc_errs, sc_presents, sc_unwound,
                   sc_owned_dropped, sc_view_destroys>>

\* A view from create_default_view goes out of scope.
Drop_owned_view ==
    /\ sc_owned_live > 0
    /\ sc_owned_live' = sc_owned_live - 1
    /\ sc_owned_dropped' = sc_owned_dropped + 1
    /\ sc_view_destroys' = Drop_TextureView(TRUE, sc_view_destroys)
    /\ UNCHANGED <<nonSwapVars, sc_panicking, sc_output, sc_backend,
                   sc_acquired, sc_errs, sc_presents, sc_unwound>>

\* A panic while the output is in scope: the thread starts to unwind.
Frame_panic ==
    /\ ~sc_panicking
    /\ sc_output # NoOutput
    /\ sc_panicking' = TRUE
    /\ UNCHANGED <<nonSwapVars, sc_output, sc_backend, sc_acquired, sc_errs,
                   sc_presents, sc_unwound, sc_owned_live, sc_owned_dropped,
                   sc_view_destroys>>

\* std::panic::catch_unwind around the frame: the unwinding has dropped the
\* locals of the frame and stops.
Frame_catch_unwind ==
    /\ sc_panicking
    /\ sc_output = NoOutput
    /\ sc_owned_live = 0
    /\ sc_panicking' = FALSE
    /\ UNCHANGED <<nonSwapVars, sc_output, sc_backend, sc_acquired, sc_errs,
                   sc_presents, sc_unwound, sc_owned_live, sc_owned_dropped,
                   sc_view_destroys>>

\* `if !thread::panicking()` of the Drop impl, made unconditional.
DropPresentsAlways(unwinding) == TRUE

\* `if !thread::panicking()`: whether drop calls wgpu_swap_chain_present.
DropPresents(unwinding) == ~unwinding

\* impl Drop for SwapChainOutput, then the drop of its field `view`.
Drop_SwapChainOutput ==
    /\ sc_output # NoOutput
    /\ sc_presents' = IF DropPresents(sc_panicking) THEN sc_presents + 1
                      ELSE sc_presents
    /\ sc_unwound' = IF sc_panicking THEN sc_unwound + 1 ELSE sc_unwound
    /\ sc_view_destroys' =
            Drop_TextureView(sc_output[1].view.owned, sc_view_destroys)
    /\ sc_output' = NoOutput
    /\ UNCHANGED <<nonSwapVars, sc_panicking, sc_backend, sc_acquired,
                   sc_errs, sc_owned_live, sc_owned_dropped>>

NextSwapChain ==
    \/ \E view_id \in ViewIds \cup {ViewId_ERROR} :
            SwapChain_get_next_texture(view_id)
    \/ Texture_create_default_view
    \/ Drop_owned_view
    \/ Frame_panic
    \/ Frame_catch_unwind
    \/ Drop_SwapChainOutput


FutureIdle == InitFuture /\ variant = "native"

InitSpecRange == FutureIdle /\ InitRange /\ InitEncoder /\ DeviceIdle /\ InitHandleError /\ InitAdapter /\ InitSwapChain

SpecRange == InitSpecRange /\ [][NextRange]_vars

InitSpecFuture == InitFuture /\ RangeIdle /\ InitEncoder /\ DeviceIdle /\ InitHandleError /\ InitAdapter /\ InitSwapChain

InitSpecEncoder == FutureIdle /\ RangeIdle /\ InitEncoder /\ DeviceIdle /\ InitHandleError /\ InitAdapter /\ InitSwapChain

SpecEncoder == InitSpecEncoder /\ [][NextEncoder]_vars

InitSpecCopy == FutureIdle /\ RangeIdle /\ InitEncoder /\ DeviceIdle /\ InitHandleError /\ InitAdapter /\ InitSwapChain

SpecCopy == InitSpecCopy /\ [][NextCopy]_vars

InitSpecDeviceDrop == FutureIdle /\ RangeIdle /\ InitEncoder /\ InitDevice /\ InitHandleError /\ InitAdapter /\ InitSwapChain

SpecDeviceDrop == InitSpecDeviceDrop /\ [][NextDeviceDrop]_vars

InitSpecResource == FutureIdle /\ RangeIdle /\ InitEncoder /\ DeviceIdle /\ InitHandleError /\ InitAdapter /\ InitSwapChain

SpecResource == InitSpecResource /\ [][NextResource]_vars

InitSpecHandleError == FutureIdle /\ RangeIdle /\ InitEncoder /\ DeviceIdle /\ InitHandleError /\ InitAdapter /\ InitSwapChain

SpecHandleError == InitSpecHandleError /\ [][NextHandleError]_vars

InitSpecAdapter == FutureIdle /\ RangeIdle /\ InitEncoder /\ DeviceIdle /\ InitHandleError /\ InitAdapter /\ InitSwapChain

InitSpecSwapChain == FutureIdle /\ RangeIdle /\ InitEncoder /\ DeviceIdle /\ InitHandleError /\ InitAdapter /\ InitSwapChain

SpecAdapter == InitSpecAdapter /\ [][NextAdapter]_vars

SpecSwapChain == InitSpecSwapChain /\ [][NextSwapChain]_vars

SpecFuture == InitSpecFuture /\ [][NextFuture]_vars

\* The futures as their contract has them used: the backend invokes the
\* callback once, and the consumer keeps the future until it has its result.
\* The consumer's executor polls a future it awaits at least once and again
\* whenever the waker of its latest poll is woken; a thread inside poll or
\* inside the callback runs on; the backend does invoke the callback.
LiveNext ==
    \/ \E w \in Wakers : Poll_Init(w)
    \/ Poll_Lock
    \/ Poll_Take
    \/ Poll_Match
    \/ \E v \in Results : completeCalls = 0 /\ Complete_Call(v)
    \/ Complete_Lock
    \/ Complete_Replace
    \/ Complete_Match
    \/ Complete_Return
    \/ \E w \in Wakers : NativePoll_Call(w)
    \/ NativePoll_Lock
    \/ NativePoll_Waker
    \/ NativePoll_Check
    \/ \E v \in Results : Wrapper_Call(v)
    \/ Wrapper_Lock
    \/ Wrapper_Store
    \/ Wrapper_Unlock
    \/ Wrapper_Wake

AwaitedPoll ==
    /\ polls = 0 \/ notified
    /\ \E w \in Wakers : Poll_Init(w) \/ NativePoll_Call(w)

PollRuns ==
    \/ Poll_Lock \/ Poll_Take \/ Poll_Match
    \/ NativePoll_Lock \/ NativePoll_Waker \/ NativePoll_Check

CallbackRuns ==
    \/ \E v \in Results :
           (completeCalls = 0 /\ Complete_Call(v)) \/ Wrapper_Call(v)
    \/ Complete_Lock \/ Complete_Replace \/ Complete_Match \/ Complete_Return
    \/ Wrapper_Lock \/ Wrapper_Store \/ Wrapper_Unlock \/ Wrapper_Wake

LiveFuture ==
    /\ InitSpecFuture
    /\ [][LiveNext]_vars
    /\ WF_vars(AwaitedPoll)
    /\ WF_vars(PollRuns)
    /\ WF_vars(CallbackRuns)

\* ------------------------------------------------------------------ claims

\* Readings of the cell shared by the claims below.
WakerRegistered ==
    IF variant = "no_alloc" THEN waker_or_result.tag = "Waker"
    ELSE shared_state.waker # NoWaker

ResultPresent ==
    IF variant = "no_alloc" THEN waker_or_result.tag = "Result"
    ELSE shared_state.data # NoData

\* The first poll has returned.
AfterFirstPoll == polls >= 1 /\ ~(polls = 1 /\ PollInProgress)

\* C1: when the Completer-based future is dropped while its mapping is in
\* flight (a poll has started the operation and no result has been stored
\* when drop looks at the cell), drop issues wgpu_buffer_unmap for the buffer.
C1_DropInFlightUnmaps ==
    (variant = "no_alloc" /\ pcC \in {"drop_unlock", "gone"} /\ inFlightAtDrop)
        => unmaps = 1

C1_Witness ==
    variant = "no_alloc" /\ pcC = "gone" /\ inFlightAtDrop /\ unmaps = 1

\* C2: after the Completer-based future has been dropped, the completion
\* callback of its operation (the only one the backend fires) never locks,
\* writes into or wakes through the dropped future's cell.
C2_CallbackAfterDropIsNoop ==
    (variant = "no_alloc" /\ completeCalls <= 1) => ~touchedFreed

\* C3: dropping the still-pending future returned by Context::buffer_map_async
\* (the native, Arc-based one) unmaps the buffer.
C3_NativeDropCancels ==
    (variant = "native" /\ dropped /\ inFlightAtDrop) => unmaps >= 1

\* C4: a second call of complete on the same (live) Completer never returns
\* normally: it is detected and panics, whatever polls ran in between.
C4_SecondCompleteFatal ==
    (variant = "no_alloc" /\ ~touchedFreed) => completeReturns < 2

\* C5: when complete has been called once, on a live future, the waker the
\* consumer had registered at that moment has been woken exactly once and no
\* other waker has been woken; with no waker registered nobody is woken.
C5_CompleteWakesOnce ==
    (completeCalls = 1 /\ completeReturns = 1 /\ ~touchedFreed)
        => \A w \in Wakers : woke[w] = (IF w = expectWake THEN 1 ELSE 0)

C5_Witness ==
    /\ completeCalls = 1 /\ completeReturns = 1 /\ ~touchedFreed
    /\ expectWake \in Wakers
    /\ woke[expectWake] = 1

\* C6: with one completion callback and a consumer that re-polls whenever
\* the waker of its latest poll is woken, under every interleaving the future
\* eventually returns Ready with the callback's result: no wake-up is lost.
C6_NoLostWakeup ==
    <>(Len(readyLog) >= 1 /\ readyLog[1] = bval)

C6_Witness ==
    /\ Len(readyLog) = 1 /\ readyLog[1] = bval
    /\ polls >= 2
    /\ expectWake \in Wakers /\ woke[expectWake] = 1

\* C7 (as stated): at every point after the first poll at which the cell's
\* lock is free, exactly one of {a waker is registered, a result is present}
\* holds.
C7_ExactlyOneAlways ==
    (AfterFirstPoll /\ lock = "free" /\ ~dropped)
        => (WakerRegistered # ResultPresent)

\* C7 (amended): at every point after the first poll at which the cell's lock
\* is free, a waker and a result are never both present, and until some poll
\* has returned Ready exactly one of them is present.
C7_ExactlyOneUntilReady ==
    (AfterFirstPoll /\ lock = "free" /\ ~dropped)
        => /\ ~(WakerRegistered /\ ResultPresent)
           /\ (readyLog = <<>> => (WakerRegistered \/ ResultPresent))

C7_Witness ==
    /\ AfterFirstPoll /\ lock = "free" /\ ~dropped
    /\ readyLog = <<>>
    /\ ResultPresent /\ ~WakerRegistered
    /\ expectWake \in Wakers

\* C8: a poll that finds the operation already completed (a result stored
\* when the poll was made: by a callback that ran before it, or by a
\* completion inside the first poll's init) returns Ready with that result.
C8_CompletedPollReady ==
    (polls >= 1 /\ ~PollInProgress /\ storedAtPoll # NoData)
        => /\ lastOutcome = "Ready"
           /\ completeCalls <= 1 => readyLog[Len(readyLog)] = storedAtPoll

C8_Witness ==
    /\ polls = 1 /\ ~PollInProgress /\ storedAtPoll # NoData
    /\ lastOutcome = "Ready" /\ readyLog = <<storedAtPoll>>

\* C9: no waker is woken and no backend call (buffer unmap) is made by poll,
\* complete or drop while it holds the cell's lock.
C9_NoEffectUnderLock == lockedEffects = {}

\* A range whose size is known, its size, and the end it records.
KnownSize(r) == r.kind = "Bounded" \/ (r.kind = "Unsure" /\ r.size # None)
SizeOf(r) == IF r.kind = "Bounded" THEN r.size ELSE r.size[1]
EndOf(r) == r.offset + SizeOf(r)
SubRangeOps == {"Bounded_Bounded", "Bounded_ToEnd", "Unsure_Unsure",
                "Unsure_Address", "Unsure_ToEnd"}

\* C10: a range made by range(offset, size) or range(offset, ToEnd) of a
\* parent whose size is known (Bounded, or Unsure with Some size) ends at or
\* before the parent's end: offset + size <= parent.offset + parent.size.
C10_SubRangeWithinParent ==
    (rstatus = "ok" /\ rcall.op \in SubRangeOps /\ KnownSize(rparent))
        => EndOf(rng) <= EndOf(rparent)

\* The sub-range asked of a Bounded parent lies inside it: its sub-offset plus
\* its size is at most the parent's size.
FitsParent == rcall.offset + rcall.size[1] <= rparent.size

\* C11: a range(offset, size) call on a Bounded range whose sub-range does not
\* fit inside the parent (offset + size > parent.size) fails its assertion,
\* whatever the parent's offset and size.
C11_OutOfBoundRejected ==
    (rcall.op = "Bounded_Bounded" /\ ~FitsParent) => rstatus = "panic"

\* C12: every range made from a BufferRange (Bounded, Unbounded or Unsure,
\* with a size, ToEnd or an optional size, or by into()) refers to the
\* parent's buffer and starts at the parent's offset plus the sub-offset.
C12_OffsetAdds ==
    (rstatus = "ok" /\ rcall.op # "buffer")
        => /\ rng.buffer = rparent.buffer
           /\ rng.offset = rparent.offset + rcall.offset

C12_Witness ==
    /\ rstatus = "ok" /\ rdepth = 2
    /\ rparent.offset > 0 /\ rcall.offset > 0
    /\ rng.kind = "Unbounded"
    /\ rng.offset = rparent.offset + rcall.offset

\* C13: no range with a known size exists whose offset + size exceeds the
\* allocated size of its buffer.
C13_WithinAllocation ==
    (rstatus = "ok" /\ KnownSize(rng)) => EndOf(rng) <= AllocatedSize

\* C14: at most one pass object, render or compute, exists on the command
\* encoder at any time, and while it exists it holds the encoder's exclusive
\* borrow, so that no second pass can be begun before it is gone.
C14_AtMostOnePassActive ==
    /\ Cardinality(pass_alive) <= 1
    /\ pass_alive # {} => enc_owner = "pass"

\* A second pass is active after the first one was ended.
C14_Witness ==
    /\ passes_begun = 2
    /\ pass_alive = {2}
    /\ pass_ended[1] = 1

\* C15: once finish() has returned a command buffer no pass is active, finish
\* is not called again and nothing more is recorded: the encoder's stream is
\* the one the command buffer was made of.
C15_FinishedIsFinal ==
    cmdbuf # None =>
        /\ finishes = 1
        /\ pass_alive = {}
        /\ stream = cmdbuf[1]

\* finish() was called on an encoder that recorded a pass and a copy.
C15_Witness ==
    /\ cmdbuf # None
    /\ Len(stream) >= 2
    /\ \E i, j \in 1..Len(stream) : stream[i].op = "pass" /\ stream[j].op = "copy"

\* The entries pass p has in the encoder's stream.
PassEntries(p) == SelectSeq(stream, LAMBDA c : c.op = "pass" /\ c.id = p)

\* Pass p was ended once and its commands are in the encoder's stream, once.
EndedAndFlushed(p) ==
    /\ pass_ended[p] = 1
    /\ PassEntries(p) = <<[op |-> "pass", id |-> p, kind |-> pass_kind[p],
                           cmds |-> pass_cmds[p]]>>

\* The passes whose object has left its scope.
PassesGone == (1..passes_begun) \ pass_alive

\* C16 (as claimed): every pass that was begun and has left its scope, on
\* whatever exit path, was ended exactly once, its commands are flushed into
\* the encoder's stream and the encoder is no longer in a pass.
C16_EveryPassEndedOnce ==
    \A p \in PassesGone : EndedAndFlushed(p)

\* C16 (amended): a pass that left its scope while the thread was not
\* panicking was ended exactly once and its commands are flushed, once, into
\* the encoder's stream; a pass dropped during unwinding was not ended and
\* nothing of it is in the stream; a pass still in scope was not ended; and
\* the encoder is borrowed by a pass only while that pass is in scope.
C16_EndedOnceUnlessUnwinding ==
    /\ \A p \in PassesGone :
        IF p \in pass_unwound
        THEN pass_ended[p] = 0 /\ PassEntries(p) = <<>>
        ELSE EndedAndFlushed(p)
    /\ \A p \in pass_alive : pass_ended[p] = 0 /\ PassEntries(p) = <<>>
    /\ pass_alive = {} => enc_owner # "pass"

\* One pass with a command in it was ended on a normal exit, another was
\* dropped by unwinding, and the encoder is recording again.
C16_Witness ==
    /\ enc_owner = "caller" /\ ~panicking
    /\ \E p, q \in PassesGone :
        /\ p \notin pass_unwound /\ pass_cmds[p] > 0 /\ EndedAndFlushed(p)
        /\ q \in pass_unwound

\* C17: once the command buffer was submitted and a poll found it done, the
\* bytes of the destination buffer at [destination.offset,
\* destination.offset + size) are the bytes the source buffer held at
\* [source.offset, source.offset + size), for the latest copy asked for.
C17_CopyLandsAtDestination ==
    (queue_state = "done" /\ copy_req # NoCopy) =>
        LET source == copy_req[1].source
            destination == copy_req[1].destination
        IN  \A k \in 0..(source.size - 1) :
                mem[destination.buffer][destination.offset + k + 1]
                    = InitialBytes(source.buffer)[source.offset + k + 1]

\* C18: the drop of a device polls it once, waiting, before anything else;
\* when that poll has returned no submitted work of the device is in flight,
\* and a backend teardown of the device is issued only after it, never with
\* work in flight.
C18_PollBeforeTeardown ==
    \A d \in Devices :
        /\ dev_pc[d] # "alive" => drop_polls[d] = 1
        /\ (dev_pc[d] # "alive" /\ proc = "running")
                => completed[d] = submitted[d]
        /\ teardowns[d] > 0 =>
            /\ dev_pc[d] = "dropped"
            /\ teardowns[d] = 1
            /\ ~teardown_early[d]

\* A device was dropped while a command buffer was in flight: the drop waited
\* for it, then issued the teardown.
C18_Witness ==
    \E d \in Devices :
        /\ dev_pc[d] = "dropped"
        /\ drop_waited[d]
        /\ teardowns[d] = 1
        /\ submitted[d] > 0

\* The buffers and textures made so far.
Destroyable == {r \in Resources : res_kind[r] \in {"buffer", "texture"}}

\* C19 (as claimed): for every buffer and texture at most one backend call
\* releasing it is ever issued, explicit destroys and the drop's call taken
\* together, and exactly one once its handle is dropped.
C19_FreeIssuedOnce ==
    \A r \in Destroyable :
        /\ destroy_calls[r] + drop_calls[r] <= 1
        /\ res_handle[r] = "dropped" => destroy_calls[r] + drop_calls[r] = 1

\* C19 (amended): the backend's drop call is issued once for every buffer and
\* texture handle that is dropped, and for no other, whether the resource was
\* destroyed before or not.
C19_DropIssuedOncePerHandle ==
    \A r \in Destroyable :
        drop_calls[r] = IF res_handle[r] = "dropped" THEN 1 ELSE 0

\* A resource was destroyed explicitly and its handle was dropped afterwards.
C19_Witness ==
    \E r \in Destroyable :
        /\ destroy_calls[r] >= 1
        /\ res_handle[r] = "dropped"
        /\ drop_calls[r] = 1

\* C20: an error raised by an operation on a resource goes to the sink of the
\* device the resource was created from, and to the handler installed on
\* that device's sink when the error is raised.
C20_ErrorGoesToOwnersHandler ==
    delivered # None =>
        LET e == delivered[1] IN
            /\ e.sink = DeviceSink(res_device[e.res])
            /\ e.handler = e.installed

\* An error on a resource reached a handler installed on its device after the
\* resource was created, while the other device has another handler.
C20_Witness ==
    /\ delivered # None
    /\ proc = "running"
    /\ LET e == delivered[1] IN
        /\ e.late
        /\ e.handler \in UserHandlers
        /\ res_handle[e.res] = "alive"
        /\ \E d \in Devices :
            /\ d # res_device[e.res]
            /\ sink_handler[DeviceSink(d)] \in UserHandlers \ {e.handler}

\* The waker the cell holds (NoWaker if none).
StoredWaker ==
    IF variant = "no_alloc" THEN waker_or_result.waker ELSE shared_state.waker

\* C27: whenever a poll has returned Pending and a waker is stored, it is the
\* waker of that latest poll, whatever waker was stored before; and a
\* completion of a future that is still there wakes no waker but the one the
\* latest poll had registered when the completion took it.
C27_LatestWakerReplaces ==
    [][~touchedFreed' =>
        /\ (pcC' = "idle" /\ lastOutcome' = "Pending" /\ StoredWaker' # NoWaker)
                => StoredWaker' = cw'
        /\ \A w \in Wakers : woke'[w] > woke[w] => w = expectWake]_vars

\* The future was polled with both wakers, the second poll replacing the
\* first one's waker, and the completion woke the latest one only.
C27_Witness ==
    /\ polledWith = Wakers
    /\ polls = 2 /\ pcC = "idle"
    /\ completeReturns = 1
    /\ expectWake = cw
    /\ \A w \in Wakers : woke[w] = (IF w = cw THEN 1 ELSE 0)

\* C28: the Completer-based future has run its init closure, and so started
\* the backend operation, once if it was polled at all and never otherwise,
\* however many polls were made; dropped without a poll it issues no unmap.
C28_InitAtFirstPollOnly ==
    variant = "no_alloc" =>
        /\ initRuns = (IF polls >= 1 THEN 1 ELSE 0)
        /\ started = (initRuns >= 1)
        /\ (polls = 0 /\ pcC \in {"drop_unlock", "gone"}) => unmaps = 0

\* Three polls were made and the operation was started once.
C28_Witness ==
    /\ variant = "no_alloc"
    /\ polls >= 3
    /\ initRuns = 1
    /\ started

\* C29: at most one poll of a buffer-map future returns Ready.
C29_ReadyAtMostOnce == Len(readyLog) <= 1

\* The range() calls made on an Unsure range.
UnsureOps == {"Unsure_Unsure", "Unsure_Address", "Unsure_ToEnd"}

\* C30: a range() call on an Unsure range with both sizes known panics when
\* the size asked for exceeds the parent's and yields the size asked for
\* otherwise; with one size known the result carries it; with none the result
\* has no size.  So a known size never grows from parent to sub-range.
C30_UnsureSizeCombines ==
    rcall.op \in UnsureOps =>
        LET old_size == rparent.size
            new_size == rcall.size
        IN  /\ (old_size # None /\ new_size # None) =>
                IF new_size[1] > old_size[1]
                THEN rstatus = "panic"
                ELSE rstatus = "ok" /\ rng.size = new_size
            /\ (old_size # None /\ new_size = None) =>
                rstatus = "ok" /\ rng.size = old_size
            /\ (old_size = None /\ new_size # None) =>
                rstatus = "ok" /\ rng.size = new_size
            /\ (old_size = None /\ new_size = None) =>
                rstatus = "ok" /\ rng.size = None
            /\ (rstatus = "ok" /\ old_size # None) =>
                rng.size # None /\ rng.size[1] <= old_size[1]

\* At the end of a chain of sub-rangings, an Unsure range of known size was
\* given a smaller one.
C30_Witness ==
    /\ rcall.op = "Unsure_Unsure"
    /\ rstatus = "ok"
    /\ rdepth = MaxDepth
    /\ rparent.kind = "Unsure" /\ rparent.size # None /\ rcall.size # None
    /\ rng.size[1] < rparent.size[1]

\* C21: when an error is handed to a sink whose handler is still the default
\* one, the call panics; when a handler was installed on the sink with
\* device_on_uncaptured_error, that handler gets the error and the operation
\* returns to its caller.
C21_DefaultFatalCustomRecovers ==
    [][delivered' # delivered =>
        LET e == delivered'[1] IN
            IF sink_handler[e.sink] = DefaultHandler
            THEN e.handler = DefaultHandler /\ proc' = "panicked"
            ELSE /\ e.handler = sink_handler[e.sink]
                 /\ e.handler \in UserHandlers
                 /\ proc' = "running"]_vars

\* An installed handler got an error of a texture and the program goes on.
C21_Witness ==
    /\ delivered # None
    /\ delivered[1].handler \in UserHandlers
    /\ res_kind[delivered[1].res] = "texture"
    /\ proc = "running"


\* C22 as stated: every backend error without a Result goes through the owning
\* device's error sink, so the process panics only when the default handler
\* was handed an error; with a handler installed every such error is
\* recoverable.
C22_AllErrorsThroughSink ==
    proc = "panicked" =>
        /\ delivered # None
        /\ delivered[1].handler = DefaultHandler

\* C22 (amended): an error that reaches handle_error is delivered to the sink,
\* and a panic without a fatal error comes from the default handler only; an
\* error of buffer/texture destroy (likewise queue submit and device poll) is
\* given to handle_error_fatal, which panics whatever handler is installed and
\* hands nothing to the default handler.
C22_FatalErrorsRaisedDirectly ==
    /\ fatal_raised =>
        /\ proc = "panicked"
        /\ delivered = None \/ delivered[1].handler \in UserHandlers
    /\ (proc = "panicked" /\ ~fatal_raised) =>
        /\ delivered # None
        /\ delivered[1].handler = DefaultHandler

\* A destroy failed on a resource whose device has a user handler installed.
C22_Witness ==
    /\ fatal_raised
    /\ \E r \in Resources :
        /\ destroy_calls[r] >= 1
        /\ res_sink[r] \in Devices
        /\ sink_handler[res_sink[r]] \in UserHandlers


\* C23: handle_error gives the sink exactly one error per failure; it is an
\* OutOfMemoryError if and only if some error of the failure's cause chain is
\* DeviceError::OutOfMemory, and a ValidationError otherwise.
C23_OneErrorOomIffInChain ==
    (he_state = "idle" /\ he_cause # NoFailure) =>
        /\ Len(he_sunk) = 1
        /\ he_sunk[1] \in {"OutOfMemoryError", "ValidationError"}
        /\ he_sunk[1] = "OutOfMemoryError" <=>
            \E i \in 1..Len(he_cause) : he_cause[i] = "DeviceError::OutOfMemory"

\* A failure handled whose out-of-memory error lies below another device
\* error in the chain.
C23_Witness ==
    /\ he_state = "idle"
    /\ Len(he_cause) = 3
    /\ he_cause[1] = "Other"
    /\ he_cause[2] = "DeviceError::Lost"
    /\ he_cause[3] = "DeviceError::OutOfMemory"
    /\ he_sunk = <<"OutOfMemoryError">>


\* C24: a request for an adapter returns None when the backend reports that
\* no adapter was found, and returns Some(adapter) only with a valid id.
C24_NoneWhenNotFound ==
    \A i \in 1..Len(ar_log) :
        /\ ~ar_log[i].found => ar_log[i].returned = None
        /\ ar_log[i].returned # None =>
                ar_log[i].returned[1].id \in AdapterIds

====
